---- MODULE Spec2Model ----
(***************************************************************************)
(* Event Management API (Express + mongoose): the three source variants.   *)
(*                                                                         *)
(*   "server"  src/server.js and the Express part of src/event-stats.js    *)
(*             (the same handlers; integer ids assigned as max + 1)        *)
(*   "simple"  src/unnamed/part_000 (the id comes from the request; the    *)
(*             Event handlers only, the ones the properties are about)     *)
(*   the statistics handler of src/event-stats.js lines 5-16, which reads  *)
(*   the store of the "server" variant.                                    *)
(*                                                                         *)
(* A collection is the sequence of its documents in storage (insertion)    *)
(* order.  A document is a function from field names to values.  The       *)
(* schemas declare id unique, and mongoose builds the unique index when    *)
(* the model is compiled: Init is the state after that start-up, an empty  *)
(* database with its indexes in place, the connection open and the server  *)
(* listening.  InitStart is the state before it.                           *)
(*                                                                         *)
(* Request bodies carry values of the type the schema declares for the     *)
(* field, so mongoose's casting leaves them as they are; what the schema   *)
(* does to a body here is to drop the fields it does not declare (strict   *)
(* mode) and to require the required ones.  The path parameter is a        *)
(* string, converted by Number() or cast to an ObjectId as the handler     *)
(* does.                                                                   *)
(*                                                                         *)
(* A handler whose storage call rejects (CastError, ValidationError,       *)
(* duplicate key) writes no JSON response of its own; that outcome is      *)
(* recorded as status 500 with the error's name.                           *)
(***************************************************************************)
EXTENDS Integers, Sequences, FiniteSets, TLC

VARIABLES
  variant,    \* which source file is running: "server" or "simple"
  store,      \* collection name -> sequence of documents, in storage order
  nextOid,    \* index into OidPool of the next ObjectId to be generated
  req,        \* the request whose handler completed last
  res,        \* the response that handler wrote
  inflight,   \* slot -> a POST handler suspended between its awaits
  stats,      \* the statistics handler: its position and totalEvents
  seen,       \* history: the <<#events, #attendees>> pairs the store held
              \* since the statistics request in progress started
  assigned,   \* history: the id the latest successful create stored in the
              \* collection assigned.coll ("none": no collection is watched)
  startup     \* the Express process: the promise of mongoose.connect()
              \* ("pending", "open", "error") and whether app.listen ran

vars == <<variant, store, nextOid, req, res, inflight, stats, seen, assigned,
          startup>>

----------------------------------------------------------------------------
(* Bounds of the model *)

\* ids stored by a create stay within 1..MaxId
MaxId == 3
\* POST handlers that may be suspended at the same time
MaxInflight == 2
\* documents created in one behaviour (ObjectIds generated), which also
\* bounds the documents the collections hold together
MaxCreates == 2

----------------------------------------------------------------------------
(* Names *)

Colls == {"events", "attendees", "organizers"}

\* ObjectIds in the order mongoose generates them; never reused
OidPool ==
  << "65a1f0c2d4e5f6a7b8c9d0a1", "65a1f0c2d4e5f6a7b8c9d0a2",
     "65a1f0c2d4e5f6a7b8c9d0a3", "65a1f0c2d4e5f6a7b8c9d0a4",
     "65a1f0c2d4e5f6a7b8c9d0a5", "65a1f0c2d4e5f6a7b8c9d0a6" >>

\* a string of 24 decimal digits: a valid ObjectId and a valid number
DigitOid == "000000000000000000000001"

Oids == {OidPool[i] : i \in DOMAIN OidPool} \cup {DigitOid}

\* Number(req.params.id): the number a decimal string denotes, NaN otherwise
IsNaN(p) == p \notin {"1", "2", "3", "4", DigitOid}

Number(p) ==
  CASE p = "1" -> 1
    [] p = "2" -> 2
    [] p = "3" -> 3
    [] p = "4" -> 4
    [] p = DigitOid -> 1
    [] OTHER -> 0

\* mongoose casts a string to an ObjectId when it is 24 hex digits
IsObjectId(p) == p \in Oids

----------------------------------------------------------------------------
(* Schemas *)

eventSchema ==
  [paths |-> {"_id", "__v", "id", "name", "date", "venue"},
   required |-> {"id"}]

attendeeSchema ==
  [paths |-> {"_id", "__v", "id", "name", "eventId"},
   required |-> {"id", "name", "eventId"}]

organizerSchema ==
  [paths |-> {"_id", "__v", "id", "name", "contact"},
   required |-> {"id", "name", "contact"}]

Schema(c) ==
  CASE c = "events" -> eventSchema
    [] c = "attendees" -> attendeeSchema
    [] c = "organizers" -> organizerSchema

\* the fields of obj kept by a function with domain keep
Restrict(obj, keep) == [f \in DOMAIN obj \cap keep |-> obj[f]]

\* a schema with strict: false, which keeps every field of the object
NotStrict(c, obj) == obj

\* new Model(obj): strict mode drops the fields the schema does not declare
Strict(c, obj) == Restrict(obj, Schema(c).paths)

\* { id: newId, ...req.body }: a later key replaces an earlier one
Spread(first, later) == later @@ first

----------------------------------------------------------------------------
(* Queries on a collection (a sequence of documents) *)

IdsOf(docs) == {docs[i]["id"] : i \in DOMAIN docs}

\* Model.findOne().sort({ id: -1 }): the index of the document with the
\* largest id, 0 (null) when the collection is empty
FindLast(docs) ==
  IF docs = <<>> THEN 0
  ELSE CHOOSE i \in DOMAIN docs : \A j \in DOMAIN docs : docs[j]["id"] <= docs[i]["id"]

\* const newId = last ? last.id + 1 : 1
NewId(docs) ==
  LET last == FindLast(docs) IN IF last = 0 THEN 1 ELSE docs[last]["id"] + 1

\* Model.findOne({ id: n }): the index of the first match, 0 (null) if none
FindOne(docs, n) ==
  IF \E i \in DOMAIN docs : docs[i]["id"] = n
  THEN CHOOSE i \in DOMAIN docs :
         /\ docs[i]["id"] = n
         /\ \A j \in DOMAIN docs : docs[j]["id"] = n => i <= j
  ELSE 0

\* Model.findById(oid): the index of the document with that _id, 0 if none
FindById(docs, oid) ==
  IF \E i \in DOMAIN docs : docs[i]["_id"] = oid
  THEN CHOOSE i \in DOMAIN docs : docs[i]["_id"] = oid
  ELSE 0

\* docs without its i-th document
RemoveAt(docs, i) ==
  [k \in 1..(Len(docs) - 1) |-> IF k < i THEN docs[k] ELSE docs[k + 1]]

\* .sort({ id: 1 }): ascending by id, insertion sort keeping storage order
\* among equal ids
RECURSIVE InsertSorted(_, _)
InsertSorted(sorted, d) ==
  IF sorted = <<>> THEN <<d>>
  ELSE IF d["id"] < Head(sorted)["id"] THEN <<d>> \o sorted
  ELSE <<Head(sorted)>> \o InsertSorted(Tail(sorted), d)

RECURSIVE SortById(_)
SortById(docs) ==
  IF docs = <<>> THEN <<>>
  ELSE InsertSorted(SortById(SubSeq(docs, 1, Len(docs) - 1)), docs[Len(docs)])

\* a collection whose index on id was never built: every write goes through
NoUniqueIndex(docs, i, n) == TRUE

\* the unique index on id: a write that would leave two documents of the
\* collection with the same id is rejected (E11000 duplicate key)
UniqueIndexAllows(docs, i, n) ==
  \A j \in DOMAIN docs : j # i => docs[j]["id"] # n

\* document.save() of a new document: validation, then the insert.
\* obj is what the handler passed to new Model(...).
Save(c, docs, obj, oid) ==
  LET doc == Strict(c, obj) @@ [_id |-> oid, __v |-> 0] IN
  IF ~(Schema(c).required \subseteq DOMAIN doc)
  THEN [ok |-> FALSE, error |-> "ValidationError", docs |-> docs, doc |-> doc]
  ELSE IF ~UniqueIndexAllows(docs, 0, doc["id"])
  THEN [ok |-> FALSE, error |-> "DuplicateKey", docs |-> docs, doc |-> doc]
  ELSE [ok |-> TRUE, error |-> "", docs |-> Append(docs, doc), doc |-> doc]

----------------------------------------------------------------------------
(* Responses *)

Json(status, body) == [status |-> status, body |-> body]

Message(text) == [message |-> text]

\* the handler's promise rejected: no JSON response of the handler's own
Rejected(error) == Json(500, [error |-> error])

NotFound(c) ==
  CASE c = "events" -> Message("Event not found")
    [] c = "attendees" -> Message("Attendee not found")
    [] c = "organizers" -> Message("Organizer not found")

Deleted(c) ==
  CASE c = "events" -> Message("Event deleted successfully")
    [] c = "attendees" -> Message("Attendee removed")
    [] c = "organizers" -> Message("Organizer deleted")

\* .select("-_id -__v") for events, .select("id name ... -_id") for the others
Select(c, doc) ==
  IF c = "events" THEN Restrict(doc, DOMAIN doc \ {"_id", "__v"})
  ELSE Restrict(doc, Schema(c).paths \ {"_id", "__v"})

SelectAll(c, docs) == [i \in DOMAIN docs |-> Select(c, docs[i])]

\* the body of the 201: events echo the request body, the others the
\* stored fields
Created(c, doc, body) ==
  IF c = "events" THEN Spread([id |-> doc["id"]], body)
  ELSE Restrict(doc, Schema(c).paths \ {"_id", "__v"})

----------------------------------------------------------------------------
(* The handlers of src/server.js (and of src/event-stats.js lines 97-422), *)
(* as functions of the collection they work on.  Each yields the response  *)
(* and the collection as the handler leaves it.                            *)

Outcome(response, docs) == [res |-> response, docs |-> docs]

\* app.get("/api/<c>")
AppGetAll(c, docs) == Json(200, SelectAll(c, SortById(docs)))

\* the lookup without its null check: a miss is answered like a hit
AppGetByIdUnchecked(c, docs, p) ==
  IF IsNaN(p) THEN Rejected("CastError")
  ELSE LET i == FindOne(docs, Number(p)) IN
       IF i = 0 THEN Json(200, Message("null"))
       ELSE Json(200, Select(c, docs[i]))

\* app.get("/api/<c>/:id")
AppGetById(c, docs, p) ==
  IF IsNaN(p) THEN Rejected("CastError")
  ELSE LET i == FindOne(docs, Number(p)) IN
       IF i = 0 THEN Json(404, NotFound(c))
       ELSE Json(200, Select(c, docs[i]))

\* app.post("/api/<c>"), after its first await: the document is built from
\* newId and the body, saved, and echoed
AppPostSave(c, docs, body, newId, oid) ==
  LET s == Save(c, docs, Spread([id |-> newId], body), oid) IN
  IF s.ok THEN Outcome(Json(201, Created(c, s.doc, body)), s.docs)
  ELSE Outcome(Rejected(s.error), docs)

\* app.post("/api/<c>") with nothing between its two awaits
AppPost(c, docs, body, oid) == AppPostSave(c, docs, body, NewId(docs), oid)

\* the update as a replacement (PUT semantics): the fields the body does
\* not name are dropped, the identifiers kept
AppPatchReplace(c, docs, p, body) ==
  IF IsNaN(p) THEN [res |-> Rejected("CastError"), docs |-> docs]
  ELSE LET i == FindOne(docs, Number(p)) IN
       IF i = 0 THEN [res |-> Json(404, NotFound(c)), docs |-> docs]
       ELSE LET set == Strict(c, body)
                updated == Spread(Restrict(docs[i], {"_id", "__v", "id"}), set)
            IN IF ~UniqueIndexAllows(docs, i, updated["id"])
               THEN [res |-> Rejected("DuplicateKey"), docs |-> docs]
               ELSE [res |-> Json(200, Select(c, updated)),
                     docs |-> [docs EXCEPT ![i] = updated]]

\* app.patch("/api/<c>/:id"): findOneAndUpdate(..., { $set: body }, { new: true })
AppPatch(c, docs, p, body) ==
  IF IsNaN(p) THEN Outcome(Rejected("CastError"), docs)
  ELSE LET i == FindOne(docs, Number(p)) IN
       IF i = 0 THEN Outcome(Json(404, NotFound(c)), docs)
       ELSE LET set == Strict(c, body)
                updated == Spread(docs[i], set)
            IN IF ~UniqueIndexAllows(docs, i, updated["id"])
               THEN Outcome(Rejected("DuplicateKey"), docs)
               ELSE Outcome(Json(200, Select(c, updated)),
                            [docs EXCEPT ![i] = updated])

\* app.delete("/api/<c>/:id"): findOneAndDelete({ id: Number(req.params.id) })
AppDelete(c, docs, p) ==
  IF IsNaN(p) THEN Outcome(Rejected("CastError"), docs)
  ELSE LET i == FindOne(docs, Number(p)) IN
       IF i = 0 THEN Outcome(Json(404, NotFound(c)), docs)
       ELSE Outcome(Json(200, Deleted(c)), RemoveAt(docs, i))

----------------------------------------------------------------------------
(* The Event handlers of src/unnamed/part_000 *)

\* app.get("/api/events"): Event.find(), storage order, whole documents
SimpleGetAll(docs) == Json(200, docs)

\* app.get("/api/events/:id")
SimpleGetById(docs, p) ==
  IF IsNaN(p) THEN Rejected("CastError")
  ELSE LET i == FindOne(docs, Number(p)) IN
       IF i = 0 THEN Json(404, Message("Event not found"))
       ELSE Json(200, docs[i])

\* app.post("/api/events"): new Event(req.body)
SimplePost(docs, body, oid) ==
  LET s == Save("events", docs, body, oid) IN
  IF s.ok THEN Outcome(Json(201, s.doc), s.docs)
  ELSE Outcome(Rejected(s.error), docs)

\* a save that replaces the Event that carries the id, if there is one
SimplePostIdUpsert(docs, eventId, body, oid) ==
  LET obj == Spread([id |-> eventId], Restrict(body, {"name", "date", "venue"}))
      i == FindOne(docs, eventId)
      doc == Strict("events", obj) @@ [_id |-> oid, __v |-> 0]
  IN IF i = 0 THEN Outcome(Json(201, doc), Append(docs, doc))
     ELSE Outcome(Json(201, doc), [docs EXCEPT ![i] = doc])

\* app.post("/api/events/:id"), after the existence check found nothing
SimplePostIdSave(docs, eventId, body, oid) ==
  LET s == Save("events", docs,
                Spread([id |-> eventId], Restrict(body, {"name", "date", "venue"})),
                oid)
  IN IF s.ok THEN Outcome(Json(201, s.doc), s.docs)
     ELSE Outcome(Rejected(s.error), docs)

\* app.post("/api/events/:id") with nothing between its two awaits
SimplePostId(docs, p, body, oid) ==
  IF IsNaN(p) THEN Outcome(Rejected("CastError"), docs)
  ELSE IF FindOne(docs, Number(p)) # 0
  THEN Outcome(Json(400, Message("Event ID already exists")), docs)
  ELSE SimplePostIdSave(docs, Number(p), body, oid)

\* app.delete("/api/events/:id"): Event.findByIdAndDelete(req.params.id)
SimpleDelete(docs, p) ==
  IF ~IsObjectId(p) THEN Outcome(Rejected("CastError"), docs)
  ELSE LET i == FindById(docs, p) IN
       Outcome(Json(200, Message("Event deleted successfully")),
               IF i = 0 THEN docs ELSE RemoveAt(docs, i))

----------------------------------------------------------------------------
(* The requests the model issues *)

\* req.params.id
Params == {"1", "2", "3", "abc"}

SimpleParams == {"1", "2", "abc", OidPool[1], OidPool[2], DigitOid}

\* req.body of a create: all schema fields, some of them, an id of the
\* client's, a field the schema does not declare
EventBodies ==
  { [name |-> "a", venue |-> "v"],
    [id |-> 3, name |-> "a"],
    [name |-> "b", extra |-> "x"] }

AttendeeBodies ==
  { [name |-> "a", eventId |-> 1],
    [name |-> "b"],
    [id |-> 2, name |-> "a", eventId |-> 1] }

OrganizerBodies ==
  { [name |-> "a", contact |-> "c"],
    [id |-> 2, name |-> "a", contact |-> "c", extra |-> "x"] }

PostBodies(c) ==
  CASE c = "events" -> EventBodies
    [] c = "attendees" -> AttendeeBodies
    [] c = "organizers" -> OrganizerBodies

\* req.body of a PATCH
PatchBodies(c) ==
  CASE c = "events" -> { [name |-> "b"], [id |-> 3], [venue |-> "v", extra |-> "x"] }
    [] c = "attendees" -> { [eventId |-> 2], [id |-> 1] }
    [] c = "organizers" -> { [contact |-> "d"] }

\* req.body of a create in part_000, where the id is the client's
SimpleBodies ==
  { [id |-> 1, name |-> "a"],
    [id |-> 2, name |-> "b", venue |-> "v"],
    [name |-> "a", extra |-> "x"] }

----------------------------------------------------------------------------
(* State *)

Slots == 1..MaxInflight

Idle == [pc |-> "idle"]

Busy == Cardinality({k \in Slots : inflight[k].pc # "idle"})

\* what Event.countDocuments() and Attendee.countDocuments() would return
Counts(st) == <<Len(st["events"]), Len(st["attendees"])>>

\* the .then callback of mongoose.connect() has called app.listen
Started == [connection |-> "open", listening |-> TRUE]

Init ==
  /\ variant \in {"server", "simple"}
  /\ store = [c \in Colls |-> <<>>]
  /\ nextOid = 1
  /\ req = [op |-> "NONE"]
  /\ res = Json(0, Message(""))
  /\ inflight = [k \in Slots |-> Idle]
  /\ stats = [pc |-> "idle"]
  /\ seen = {}
  /\ assigned = [coll |-> "none", id |-> 0]
  /\ startup = Started

\* Express routes a request to its handler only once app.listen has run
Listening == startup.listening

\* a create may go ahead: the model's bounds leave room for its document
Room(c) ==
  /\ nextOid + Busy <= MaxCreates
  /\ nextOid + Busy <= Len(OidPool)

\* the handler of request r on collection c completed with outcome out
Complete(r, c, out) ==
  /\ Listening
  /\ req' = r
  /\ res' = out.res
  /\ store' = [store EXCEPT ![c] = out.docs]
  /\ nextOid' = IF Len(out.docs) > Len(store[c]) THEN nextOid + 1 ELSE nextOid
  /\ seen' = IF stats.pc = "idle" THEN seen ELSE seen \cup {Counts(store')}
  /\ assigned' = IF c = assigned.coll /\ Len(out.docs) > Len(store[c])
                 THEN [assigned EXCEPT !.id = out.docs[Len(out.docs)]["id"]]
                 ELSE assigned
  /\ UNCHANGED startup

\* a handler that only reads completed with response r
Answer(r, response) ==
  /\ Listening
  /\ req' = r
  /\ res' = response
  /\ UNCHANGED <<store, nextOid, seen, assigned, startup>>

----------------------------------------------------------------------------
(* Requests served one at a time: src/server.js *)

GetAll(c) ==
  /\ variant = "server"
  /\ Answer([op |-> "GET_ALL", coll |-> c], AppGetAll(c, store[c]))
  /\ UNCHANGED <<variant, inflight, stats>>

GetById(c, p) ==
  /\ variant = "server"
  /\ Answer([op |-> "GET", coll |-> c, param |-> p], AppGetById(c, store[c], p))
  /\ UNCHANGED <<variant, inflight, stats>>

Post(c, b) ==
  /\ variant = "server"
  /\ Room(c)
  /\ NewId(store[c]) <= MaxId
  /\ Complete([op |-> "POST", coll |-> c, body |-> b], c,
              AppPost(c, store[c], b, OidPool[nextOid]))
  /\ UNCHANGED <<variant, inflight, stats>>

Patch(c, p, b) ==
  /\ variant = "server"
  /\ Complete([op |-> "PATCH", coll |-> c, param |-> p, body |-> b], c,
              AppPatch(c, store[c], p, b))
  /\ UNCHANGED <<variant, inflight, stats>>

\* a delete of an Event that also removes the Attendees that reference it
DeleteCascade(c, p) ==
  /\ variant = "server"
  /\ Listening
  /\ LET out == AppDelete(c, store[c], p)
         gone == c = "events" /\ out.res.status = 200
     IN /\ req' = [op |-> "DELETE", coll |-> c, param |-> p]
        /\ res' = out.res
        /\ store' = [d \in Colls |->
                       IF d = c THEN out.docs
                       ELSE IF gone /\ d = "attendees"
                       THEN SelectSeq(store[d],
                                      LAMBDA a : a["eventId"] # Number(p))
                       ELSE store[d]]
  /\ UNCHANGED <<variant, nextOid, inflight, stats, seen, assigned, startup>>

Delete(c, p) ==
  /\ variant = "server"
  /\ Complete([op |-> "DELETE", coll |-> c, param |-> p], c,
              AppDelete(c, store[c], p))
  /\ UNCHANGED <<variant, inflight, stats>>

----------------------------------------------------------------------------
(* Requests served one at a time: src/unnamed/part_000 *)

SimpleGetAllEvents ==
  /\ variant = "simple"
  /\ Answer([op |-> "GET_ALL", coll |-> "events"], SimpleGetAll(store["events"]))
  /\ UNCHANGED <<variant, inflight, stats>>

SimpleGetEvent(p) ==
  /\ variant = "simple"
  /\ Answer([op |-> "GET", coll |-> "events", param |-> p],
            SimpleGetById(store["events"], p))
  /\ UNCHANGED <<variant, inflight, stats>>

SimplePostEvent(b) ==
  /\ variant = "simple"
  /\ Room("events")
  /\ Complete([op |-> "POST", coll |-> "events", body |-> b], "events",
              SimplePost(store["events"], b, OidPool[nextOid]))
  /\ UNCHANGED <<variant, inflight, stats>>

SimplePostEventId(p, b) ==
  /\ variant = "simple"
  /\ Room("events")
  /\ Complete([op |-> "POST_ID", coll |-> "events", param |-> p, body |-> b],
              "events", SimplePostId(store["events"], p, b, OidPool[nextOid]))
  /\ UNCHANGED <<variant, inflight, stats>>

SimpleDeleteEvent(p) ==
  /\ variant = "simple"
  /\ Complete([op |-> "DELETE", coll |-> "events", param |-> p], "events",
              SimpleDelete(store["events"], p))
  /\ UNCHANGED <<variant, inflight, stats>>

Next ==
  \/ \E c \in Colls : GetAll(c)
  \/ \E c \in Colls, p \in Params : GetById(c, p)
  \/ \E c \in Colls : \E b \in PostBodies(c) : Post(c, b)
  \/ \E c \in Colls, p \in Params : \E b \in PatchBodies(c) : Patch(c, p, b)
  \/ \E c \in Colls, p \in Params : Delete(c, p)
  \/ SimpleGetAllEvents
  \/ \E p \in SimpleParams : SimpleGetEvent(p)
  \/ \E b \in SimpleBodies : SimplePostEvent(b)
  \/ \E p \in SimpleParams, b \in SimpleBodies : SimplePostEventId(p, b)
  \/ \E p \in SimpleParams : SimpleDeleteEvent(p)

Spec == Init /\ [][Next]_vars

----------------------------------------------------------------------------
(* Concurrent creates: app.post("/api/<c>") suspends at each await, and    *)
(* other handlers run in between.  The other handlers of src/server.js     *)
(* make one storage call each, which the database runs as one step.        *)

\* const last = await Model.findOne().sort({ id: -1 }); newId is computed
PostRead(k, c, b) ==
  /\ variant = "server"
  /\ Listening
  /\ inflight[k].pc = "idle"
  /\ Room(c)
  /\ NewId(store[c]) <= MaxId
  /\ inflight' = [inflight EXCEPT ![k] =
                    [pc |-> "save", coll |-> c, body |-> b, newId |-> NewId(store[c])]]
  /\ UNCHANGED <<variant, store, nextOid, req, res, stats, seen, assigned,
                 startup>>

\* await doc.save(); res.status(201).json(...)
PostSave(k) ==
  /\ inflight[k].pc = "save"
  /\ LET h == inflight[k] IN
       Complete([op |-> "POST", coll |-> h.coll, body |-> h.body], h.coll,
                AppPostSave(h.coll, store[h.coll], h.body, h.newId, OidPool[nextOid]))
  /\ inflight' = [inflight EXCEPT ![k] = Idle]
  /\ UNCHANGED <<variant, stats>>


\* the collections the concurrent requests go to
ConcColls == {"events", "attendees"}

NextConc ==
  \/ \E k \in Slots, c \in ConcColls : \E b \in PostBodies(c) : PostRead(k, c, b)
  \/ \E k \in Slots : PostSave(k)
  \/ \E c \in ConcColls, p \in Params : \E b \in PatchBodies(c) : Patch(c, p, b)
  \/ \E c \in ConcColls, p \in Params : Delete(c, p)
  \/ \E b \in SimpleBodies : SimplePostEvent(b)
  \/ \E p \in SimpleParams, b \in SimpleBodies : SimplePostEventId(p, b)
  \/ \E p \in SimpleParams : SimpleDeleteEvent(p)

SpecConc == Init /\ [][NextConc]_vars

----------------------------------------------------------------------------
(* The statistics handler, src/event-stats.js lines 5-16, beside creates   *)
(* and deletes of Events and Attendees                                      *)

Methods == {"GET", "POST"}

\* the request arrives; await dbConnect()
StatsRequest(m) ==
  /\ variant = "server"
  /\ stats.pc = "idle"
  /\ stats' = [pc |-> "connect", method |-> m]
  /\ seen' = {Counts(store)}
  /\ UNCHANGED <<variant, store, nextOid, req, res, inflight, assigned,
                 startup>>

\* the first count taken from the wrong model
StatsCountEventsFromAttendees ==
  /\ stats.pc = "connect"
  /\ stats.method = "GET"
  /\ stats' = [pc |-> "attendees", totalEvents |-> Len(store["attendees"])]
  /\ UNCHANGED <<variant, store, nextOid, req, res, inflight, seen, assigned,
                 startup>>

\* req.method === 'GET': const totalEvents = await Event.countDocuments()
StatsCountEvents ==
  /\ stats.pc = "connect"
  /\ stats.method = "GET"
  /\ stats' = [pc |-> "attendees", totalEvents |-> Len(store["events"])]
  /\ UNCHANGED <<variant, store, nextOid, req, res, inflight, seen, assigned,
                 startup>>

\* const totalAttendees = await Attendee.countDocuments(); res.status(200)
StatsCountAttendees ==
  /\ stats.pc = "attendees"
  /\ req' = [op |-> "STATS", method |-> "GET"]
  /\ res' = Json(200, [totalEvents |-> stats.totalEvents,
                       totalAttendees |-> Len(store["attendees"])])
  /\ stats' = [pc |-> "idle"]
  /\ UNCHANGED <<variant, store, nextOid, inflight, seen, assigned, startup>>

\* any other method: 405
StatsMethodNotAllowed ==
  /\ stats.pc = "connect"
  /\ stats.method # "GET"
  /\ req' = [op |-> "STATS", method |-> stats.method]
  /\ res' = Json(405, Message("Method not allowed"))
  /\ stats' = [pc |-> "idle"]
  /\ UNCHANGED <<variant, store, nextOid, inflight, seen, assigned, startup>>

StatsColls == {"events", "attendees"}

NextStats ==
  \/ \E m \in Methods : StatsRequest(m)
  \/ StatsCountEvents
  \/ StatsCountAttendees
  \/ StatsMethodNotAllowed
  \/ \E c \in StatsColls : \E b \in PostBodies(c) : Post(c, b)
  \/ \E c \in StatsColls, p \in Params : Delete(c, p)

InitStats == Init /\ variant = "server"

SpecStats == InitStats /\ [][NextStats]_vars

----------------------------------------------------------------------------
(* Creates and deletes alone, with bodies that leave the id to the server, *)
(* and the latest id assigned in one collection recorded                   *)

ServerIdBodies(c) == {b \in PostBodies(c) : "id" \notin DOMAIN b}

InitAssign ==
  /\ variant = "server"
  /\ store = [c \in Colls |-> <<>>]
  /\ nextOid = 1
  /\ req = [op |-> "NONE"]
  /\ res = Json(0, Message(""))
  /\ inflight = [k \in Slots |-> Idle]
  /\ stats = [pc |-> "idle"]
  /\ seen = {}
  /\ \E c \in Colls : assigned = [coll |-> c, id |-> 0]
  /\ startup = Started

NextAssign ==
  \/ \E c \in Colls : \E b \in ServerIdBodies(c) : Post(c, b)
  \/ \E c \in Colls, p \in Params : Delete(c, p)

SpecAssign == InitAssign /\ [][NextAssign]_vars

----------------------------------------------------------------------------
(* app.post("/api/events/:id") of src/unnamed/part_000 suspends at its two *)
(* awaits, the existence check and the save; other handlers run between.   *)

\* const existingEvent = await Event.findOne({ id: eventId }); the 400, or
\* on to the save
SimplePostIdCheck(k, p, b) ==
  /\ variant = "simple"
  /\ Listening
  /\ inflight[k].pc = "idle"
  /\ Room("events")
  /\ IF IsNaN(p) \/ FindOne(store["events"], Number(p)) # 0
     THEN /\ Complete([op |-> "POST_ID", coll |-> "events", param |-> p, body |-> b],
                      "events",
                      IF IsNaN(p)
                      THEN Outcome(Rejected("CastError"), store["events"])
                      ELSE Outcome(Json(400, Message("Event ID already exists")),
                                   store["events"]))
          /\ UNCHANGED inflight
     ELSE /\ inflight' = [inflight EXCEPT ![k] =
                            [pc |-> "saveId", param |-> p, body |-> b,
                             eventId |-> Number(p)]]
          /\ UNCHANGED <<store, nextOid, req, res, seen, assigned, startup>>
  /\ UNCHANGED <<variant, stats>>

\* await newEvent.save(); res.status(201).json(newEvent)
SimplePostIdSaveStep(k) ==
  /\ inflight[k].pc = "saveId"
  /\ LET h == inflight[k] IN
       Complete([op |-> "POST_ID", coll |-> "events", param |-> h.param,
                 body |-> h.body], "events",
                SimplePostIdSave(store["events"], h.eventId, h.body,
                                 OidPool[nextOid]))
  /\ inflight' = [inflight EXCEPT ![k] = Idle]
  /\ UNCHANGED <<variant, stats>>

InitPostId == Init /\ variant = "simple"

NextPostId ==
  \/ \E k \in Slots, p \in SimpleParams, b \in SimpleBodies : SimplePostIdCheck(k, p, b)
  \/ \E k \in Slots : SimplePostIdSaveStep(k)
  \/ \E p \in SimpleParams : SimpleDeleteEvent(p)

SpecPostId == InitPostId /\ [][NextPostId]_vars

----------------------------------------------------------------------------
(* Start-up: mongoose.connect(process.env.MONGO_URI).then(...).catch(...)  *)
(* at the end of src/server.js and src/unnamed/part_000.  The handlers are *)
(* registered on app before, but Express runs none until app.listen.       *)

InitStart ==
  /\ variant \in {"server", "simple"}
  /\ store = [c \in Colls |-> <<>>]
  /\ nextOid = 1
  /\ req = [op |-> "NONE"]
  /\ res = Json(0, Message(""))
  /\ inflight = [k \in Slots |-> Idle]
  /\ stats = [pc |-> "idle"]
  /\ seen = {}
  /\ assigned = [coll |-> "none", id |-> 0]
  /\ startup = [connection |-> "pending", listening |-> FALSE]

\* the promise of mongoose.connect() is fulfilled
ConnectResolved ==
  /\ startup.connection = "pending"
  /\ startup' = [startup EXCEPT !.connection = "open"]
  /\ UNCHANGED <<variant, store, nextOid, req, res, inflight, stats, seen,
                 assigned>>

\* the promise is rejected: .then is skipped, .catch logs the error
ConnectRejected ==
  /\ startup.connection = "pending"
  /\ startup' = [startup EXCEPT !.connection = "error"]
  /\ UNCHANGED <<variant, store, nextOid, req, res, inflight, stats, seen,
                 assigned>>

\* app.listen called without waiting for the connection
ListenAtOnce ==
  /\ ~startup.listening
  /\ startup' = [startup EXCEPT !.listening = TRUE]
  /\ UNCHANGED <<variant, store, nextOid, req, res, inflight, stats, seen,
                 assigned>>

\* the .then callback: console.log("Connected to MongoDB"); app.listen(port)
Listen ==
  /\ startup.connection = "open"
  /\ ~startup.listening
  /\ startup' = [startup EXCEPT !.listening = TRUE]
  /\ UNCHANGED <<variant, store, nextOid, req, res, inflight, stats, seen,
                 assigned>>

NextStart ==
  \/ ConnectResolved
  \/ ConnectRejected
  \/ Listen
  \/ Next

SpecStart == InitStart /\ [][NextStart]_vars

----------------------------------------------------------------------------
(* Properties *)

\* the largest id of a collection plus 1, 1 for an empty collection
MaxPlusOne(docs) ==
  IF docs = <<>> THEN 1
  ELSE (CHOOSE m \in IdsOf(docs) : \A n \in IdsOf(docs) : n <= m) + 1

\* the path segment that names id n
ParamOf(n) ==
  CASE n = 1 -> "1" [] n = 2 -> "2" [] n = 3 -> "3" [] n = 4 -> "4"

\* what GET /api/<c>/<p> would answer in the current state
GetResponse(c, p) ==
  IF variant = "server" THEN AppGetById(c, store[c], p)
  ELSE SimpleGetById(store[c], p)

\* the fields a schema declares besides mongoose's own _id and __v
Declared(c) == Schema(c).paths \ {"_id", "__v"}

StorageFields == {"_id", "__v"}

\* C1: every POST to a creation endpoint that answers 201 carries, in the
\* response and on the stored record, the id (largest id of the collection
\* just before the request) + 1, or 1 if the collection was empty.
C1_CreatedIdIsMaxPlusOne ==
  [][ (req'.op = "POST" /\ res'.status = 201)
      => LET before == store[req'.coll]
             after == store'[req'.coll]
         IN /\ res'.body["id"] = MaxPlusOne(before)
            /\ after[Len(after)]["id"] = MaxPlusOne(before) ]_vars

\* C2: in every reachable state, whatever the interleaving of the requests
\* (concurrent POSTs split into their read-max and save steps, POST and
\* PATCH bodies that carry an id), no two records of one collection have
\* the same id.
C2_UniqueIds ==
  \A c \in Colls : \A i, j \in DOMAIN store[c] :
    i # j => store[c][i]["id"] # store[c][j]["id"]

\* C2's case: a POST that left the id to the server lost a race and was
\* rejected by the unique index
C2_Witness ==
  /\ variant = "server"
  /\ req.op = "POST"
  /\ "id" \notin DOMAIN req.body
  /\ res = Rejected("DuplicateKey")
  /\ store[req.coll] # <<>>

\* C3: over any sequence of POST and DELETE requests on one collection the
\* ids assigned by successive successful POSTs are strictly increasing: an
\* id once assigned is never assigned again.
C3_AssignedIdsIncrease ==
  [][ (req'.op = "POST" /\ res'.status = 201 /\ req'.coll = assigned.coll)
      => res'.body["id"] > assigned.id ]_vars

\* C4 as stated: a GET by id right after a successful POST returns exactly
\* the fields of the POST body with the assigned id, the record the 201
\* response carried.
C4_GetReturnsSubmitted ==
  (req.op = "POST" /\ res.status = 201)
  => LET g == GetResponse(req.coll, ParamOf(res.body["id"])) IN
     /\ g.status = 200
     /\ g.body = Spread([id |-> res.body["id"]], req.body)
     /\ g.body = res.body

\* C4, amended: a GET by the id of the 201 response, right after a
\* successful POST, returns the fields of the POST body that the schema
\* declares (the others are not stored) with the id of the response.  With
\* integer ids that is the 201's record without the undeclared fields the
\* Event handler echoes; in part_000 it is the 201's document, which also
\* carries _id and __v.
C4_GetReturnsDeclared ==
  (req.op = "POST" /\ res.status = 201)
  => LET c == req.coll
         g == GetResponse(c, ParamOf(res.body["id"]))
         kept == Spread([id |-> res.body["id"]], Restrict(req.body, Declared(c)))
     IN /\ g.status = 200
        /\ variant = "server" =>
             /\ g.body = kept
             /\ g.body = Restrict(res.body, Declared(c))
        /\ variant = "simple" =>
             /\ Restrict(g.body, Declared(c)) = kept
             /\ DOMAIN g.body = DOMAIN kept \cup StorageFields
             /\ g.body = res.body

\* C4's case: a record was created from a body with an undeclared field
C4_Witness ==
  /\ req.op = "POST"
  /\ res.status = 201
  /\ "extra" \in DOMAIN req.body

\* C5: a PATCH on an existing record changes only the fields the request
\* body names: every other field of the record keeps its value, no field
\* appears that the body does not name, and every other record of every
\* collection is unchanged.
C5_PatchFrame ==
  [][ ( /\ req'.op = "PATCH"
        /\ ~IsNaN(req'.param)
        /\ FindOne(store[req'.coll], Number(req'.param)) # 0 )
      => LET c == req'.coll
             i == FindOne(store[c], Number(req'.param))
             old == store[c][i]
             new == store'[c][i]
         IN /\ Len(store'[c]) = Len(store[c])
            /\ \A f \in DOMAIN old \ DOMAIN req'.body :
                 f \in DOMAIN new /\ new[f] = old[f]
            /\ DOMAIN new \subseteq DOMAIN old \cup DOMAIN req'.body
            /\ \A j \in DOMAIN store[c] : j # i => store'[c][j] = store[c][j]
            /\ \A d \in Colls \ {c} : store'[d] = store[d] ]_vars

\* C5's case: a PATCH naming one field changed it on a record that has
\* other fields, while another collection holds records
C5_Witness ==
  /\ req.op = "PATCH"
  /\ res.status = 200
  /\ req.body = [name |-> "b"]
  /\ res.body["name"] = "b"
  /\ "venue" \in DOMAIN res.body
  /\ store["attendees"] # <<>>

\* C6: a DELETE that answered 200, followed by a GET on the same id,
\* yields 404.
C6_GetAfterDeleteIs404 ==
  (req.op = "DELETE" /\ res.status = 200)
  => GetResponse(req.coll, req.param).status = 404

\* C7: a DELETE by id removes exactly the record with that id and answers
\* 200 with the confirmation when there is one; otherwise it answers 404
\* with "<Resource> not found" and leaves every collection unchanged.
C7_DeleteRemovesOr404 ==
  [][ (req'.op = "DELETE" /\ ~IsNaN(req'.param))
      => LET c == req'.coll
             i == FindOne(store[c], Number(req'.param))
         IN IF i # 0
            THEN /\ res' = Json(200, Deleted(c))
                 /\ store' = [store EXCEPT ![c] = RemoveAt(store[c], i)]
            ELSE /\ res' = Json(404, NotFound(c))
                 /\ store' = store ]_vars

\* C8: GET /api/events/:id with a numeric id that no Event carries answers
\* 404 {"message":"Event not found"}; with an id that an Event carries it
\* answers 200 with that record; either way no stored record changes.
C8_GetEventById ==
  [][ (req'.op = "GET" /\ req'.coll = "events" /\ ~IsNaN(req'.param))
      => LET docs == store["events"]
             n == Number(req'.param)
         IN /\ store' = store
            /\ IF n \in IdsOf(docs)
               THEN /\ res'.status = 200
                    /\ \E i \in DOMAIN docs :
                         /\ docs[i]["id"] = n
                         /\ DOMAIN docs[i] \ StorageFields \subseteq DOMAIN res'.body
                         /\ DOMAIN res'.body \subseteq DOMAIN docs[i]
                         /\ \A f \in DOMAIN res'.body : res'.body[f] = docs[i][f]
               ELSE res' = Json(404, [message |-> "Event not found"]) ]_vars

\* C8's case: a GET for a numeric id that none of the stored Events carries
C8_Witness ==
  /\ req.op = "GET"
  /\ req.coll = "events"
  /\ ~IsNaN(req.param)
  /\ res.status = 404
  /\ store["events"] # <<>>

\* C9: GET on a list endpoint answers 200 with every record of the
\* collection, each once, in ascending order of id.
C9_ListSortedById ==
  (req.op = "GET_ALL")
  => LET docs == store[req.coll]
         list == res.body
     IN /\ res.status = 200
        /\ Len(list) = Len(docs)
        /\ \A i \in DOMAIN docs : \E k \in DOMAIN list :
             list[k]["id"] = docs[i]["id"]
        /\ \A k \in DOMAIN list : k > 1 => list[k - 1]["id"] < list[k]["id"]

\* C10 as stated: the statistics response carries the numbers of Events and
\* of Attendees that the store held at one common moment of the request.
C10_CountsOfOneMoment ==
  (req.op = "STATS" /\ res.status = 200 /\ stats.pc = "idle")
  => <<res.body.totalEvents, res.body.totalAttendees>> \in seen

\* C10, amended: totalAttendees is the number of Attendees the store holds
\* when the response is written and totalEvents the number of Events it
\* held at some moment of the request, not necessarily the same moment.
C10_CountsOfTwoMoments ==
  (req.op = "STATS" /\ res.status = 200 /\ stats.pc = "idle")
  => /\ res.body.totalAttendees = Len(store["attendees"])
     /\ \E m \in seen : m[1] = res.body.totalEvents
     /\ \E m \in seen : m[2] = res.body.totalAttendees

\* C10's case: creates or deletes completed while the request was served
C10_Witness ==
  /\ req.op = "STATS"
  /\ res.status = 200
  /\ stats.pc = "idle"
  /\ Cardinality(seen) > 2

\* C11: the server accepts requests only after the storage connection is
\* established: it listens only with the connection open, a handler runs
\* only while it listens, and after a failed connection attempt the
\* process never listens and no handler ever runs.
C11_ServesOnlyWhenConnected ==
  [][ /\ startup'.listening => startup'.connection = "open"
      /\ (req' # req \/ res' # res \/ store' # store \/ inflight' # inflight)
           => (startup.listening /\ startup.connection = "open")
      /\ startup.connection = "error"
           => /\ startup' = startup
              /\ ~startup.listening
              /\ UNCHANGED <<req, res, store, inflight>> ]_vars

\* C11's case: a handler answered a request after the connection opened
\* and app.listen ran
C11_Witness ==
  /\ startup = Started
  /\ req.op # "NONE"
  /\ store["events"] # <<>>

\* C12: deleting an Event leaves the Attendee collection unchanged: the
\* Attendees whose eventId is the deleted Event's id are still stored with
\* the same fields.
C12_DeleteEventKeepsAttendees ==
  [][ (req'.op = "DELETE" /\ req'.coll = "events")
      => store'["attendees"] = store["attendees"] ]_vars

\* C12's case: an Event was deleted and an Attendee still references its id
C12_Witness ==
  /\ req.op = "DELETE"
  /\ req.coll = "events"
  /\ res.status = 200
  /\ ~IsNaN(req.param)
  /\ Number(req.param) \notin IdsOf(store["events"])
  /\ \E i \in DOMAIN store["attendees"] :
       store["attendees"][i]["eventId"] = Number(req.param)

\* this step completes a POST /api/events/:id whose parameter is numeric:
\* at once from the existence check, or from a suspended save
PostIdAnswered ==
  /\ req'.op = "POST_ID"
  /\ ~IsNaN(req'.param)
  /\ \/ inflight' = inflight
     \/ \E k \in Slots : inflight[k].pc = "saveId" /\ inflight'[k].pc = "idle"

\* the step stored one new Event with id n and answered 201 with it
PostIdCreated(n) ==
  LET docs == store["events"]
      after == store'["events"]
  IN /\ res'.status = 201
     /\ res'.body["id"] = n
     /\ Len(after) = Len(docs) + 1
     /\ SubSeq(after, 1, Len(docs)) = docs
     /\ after[Len(after)]["id"] = n

====
